---- MODULE Spec2Model ----
(***************************************************************************)
(* Navigation-aid monitoring backend: the per-equipment socket manager     *)
(* (MultiPortUDPListener), the equipment configuration (Config) and the    *)
(* administrative HTTP handlers that drive them.                           *)
(*                                                                         *)
(* Node.js runs every handler to completion on one thread, so each handler *)
(* and each socket event is one atomic action.                             *)
(*                                                                         *)
(* Equipment descriptors are JavaScript objects shared by reference        *)
(* between config.equipment, the listener's equipmentMap and the closures  *)
(* of the socket event handlers.  Ids are unique in config.equipment, and  *)
(* every mutation of a descriptor goes through config.equipment, so        *)
(*   - a reference to a descriptor that is in config.equipment is kept as  *)
(*     its id (live reference) and read through the configuration;         *)
(*   - when a descriptor is spliced out of config.equipment it can no      *)
(*     longer change, and the references to it become frozen copies.       *)
(* A socket object is kept in the sockets map; the listener has no other   *)
(* reference to it, so a socket that leaves the map is out of its reach.   *)
(***************************************************************************)
EXTENDS Integers, Sequences, FiniteSets, TLC

\* ---------------------------------------------------------------- bounds
MaxPort == 2      \* UDP ports are 1..MaxPort
MaxBatch == 1     \* entries of one batch port update

Ids == {"a", "b"}
Ports == 1..MaxPort

VARIABLES
  equipment,     \* config.equipment: array of descriptors {id, port, enabled}
  sockets,       \* listener.sockets: Map<port, socket>
  equipmentMap,  \* listener.equipmentMap: Map<port, descriptor reference>
  log,           \* console.error lines written by the last step
  phase,         \* "init" before udpListener.start, "starting" until the
                 \* first request or signal after it, then "running"
  last,          \* the last step: route or event, its arguments and the
                 \* listener call it made
  resp           \* the HTTP status the last step answered (0: no request)

\* The ICD decoder is stateless; its specification keeps the payload it is
\* given and what it returned.
VARIABLES
  buffer,        \* the payload: a sequence of bytes
  decoded,       \* what decodePacket(buffer) returned; Pending before the call
  made           \* the path and status createMonitorByte built buffer from

\* The equipment state tracker (EquipmentManager).  A status is one
\* JavaScript object; the maps hold references to it, so statuses live in
\* a heap and a reference is an index of the heap.
VARIABLES
  heap,            \* the status objects built so far, in allocation order
  equipmentStatus, \* manager.equipmentStatus: Map<id, reference>
  eventHistory,    \* manager.eventHistory: Map<id, array of references>
  now,             \* the clock, in ms
  tlast            \* the last tracker step: its operation, id and answer

\* The live fanout (WebSocketServer).
VARIABLES
  clients,         \* wsServer.clients: Set of sockets, in insertion order
  wsState,         \* per socket: readyState, whether send throws, and
                   \* the messages it was sent
  bcast            \* the last broadcast: its event and how it ended

\* config.server, as loadEquipmentConfig leaves it; nothing writes it later.
VARIABLES
  configServer     \* [connectionTimeout, allowUnknownIPs]

listenerVars == <<equipment, sockets, equipmentMap, log, phase, last, resp>>
decoderVars == <<buffer, decoded, made>>
trackerVars == <<heap, equipmentStatus, eventHistory, now, tlast>>
wsVars == <<clients, wsState, bcast>>

configVars == <<configServer>>

vars == <<listenerVars, decoderVars, trackerVars, wsVars, configVars>>

\* What the steps of one component leave alone.
besideListener == <<decoderVars, trackerVars, wsVars, configVars>>
besideDecoder == <<listenerVars, trackerVars, wsVars, configVars>>
besideTracker == <<listenerVars, decoderVars, wsVars, configVars>>
besideWs == <<listenerVars, decoderVars, trackerVars, configVars>>

Pending == [pending |-> TRUE]
NotMade == [path |-> "none", status |-> "none"]

\* The decoder has been given nothing.
DecoderIdle == buffer = <<>> /\ decoded = Pending /\ made = NotMade

\* The tracker after construction: two empty maps.
NoStep == [op |-> "none", id |-> "none", ret |-> <<>>]
TrackerIdle ==
  /\ heap = <<>>
  /\ equipmentStatus = <<>>
  /\ eventHistory = <<>>
  /\ now = 0
  /\ tlast = NoStep

\* config.server when the file has no server section, or cannot be read.
DefaultServer == [connectionTimeout |-> 30000, allowUnknownIPs |-> FALSE]
ConfigDefault == configServer = DefaultServer

\* The fanout after construction: no subscriber.
WsIds == {"w1", "w2", "w3"}
NoSocket ==
  [readyState |-> "NONE", sendThrows |-> FALSE, inbox |-> <<>>,
   isAlive |-> TRUE,    \* ws.isAlive
   inWss |-> FALSE,     \* the socket is in wss.clients, the set of the ws library
   unanswered |-> 0]    \* heartbeats that pinged it since its last pong
NoBroadcast == [n |-> 0, event |-> "none", successCount |-> 0, failCount |-> 0, threw |-> FALSE]
WsIdle ==
  /\ clients = <<>>
  /\ wsState = [w \in WsIds |-> NoSocket]
  /\ bcast = NoBroadcast

\* ------------------------------------------------ JavaScript Map (ordered)
MapHas(m, k) == \E i \in 1..Len(m) : m[i][1] = k

MapGet(m, k) == m[CHOOSE i \in 1..Len(m) : m[i][1] = k][2]

MapSet(m, k, v) ==
  IF MapHas(m, k)
    THEN [i \in 1..Len(m) |-> IF m[i][1] = k THEN <<k, v>> ELSE m[i]]
    ELSE Append(m, <<k, v>>)

MapDelete(m, k) ==
  LET keep(e) == e[1] # k IN SelectSeq(m, keep)

Min(S) == CHOOSE x \in S : \A y \in S : x <= y

\* ------------------------------------------------------------------ state
\* The program state as one record, so that handlers compose as functions.
St ==
  [equipment |-> equipment, sockets |-> sockets, equipmentMap |-> equipmentMap,
   log |-> {}, err |-> ""]

Throw(s, e) == [s EXCEPT !.err = e]

\* Descriptor references.
Live(id) == [live |-> TRUE, id |-> id, port |-> 0]
Frozen(d) == [live |-> FALSE, id |-> d.id, port |-> d.port]

IndexOf(s, id) ==
  LET hit == {i \in 1..Len(s.equipment) : s.equipment[i].id = id}
  IN IF hit = {} THEN 0 ELSE Min(hit)

Deref(s, r) ==
  IF r.live THEN [id |-> r.id, port |-> s.equipment[IndexOf(s, r.id)].port]
  ELSE [id |-> r.id, port |-> r.port]

\* ----------------------------------------------------------------- Config
\* config.getEquipmentById: the descriptor's index in config.equipment, 0 if none.
getEquipmentById(s, id) == IndexOf(s, id)

getEnabledEquipment(s) ==
  LET on(d) == d.enabled IN SelectSeq(s.equipment, on)

updateEquipmentPort(s, equipmentId, newPort) ==
  LET i == IndexOf(s, equipmentId)
  IN IF i = 0 THEN s ELSE [s EXCEPT !.equipment[i].port = newPort]

isPortAvailable(s, port, excludeId) ==
  ~ \E i \in 1..Len(s.equipment) :
      s.equipment[i].port = port /\ s.equipment[i].id # excludeId

\* config.addEquipment
cfgAddEquipment(s, d) ==
  IF IndexOf(s, d.id) # 0 THEN Throw(s, "IdExists")
  ELSE IF \E i \in 1..Len(s.equipment) : s.equipment[i].port = d.port
    THEN Throw(s, "CfgPortInUse")
  ELSE [s EXCEPT !.equipment = Append(@, d)]

\* config.updateEquipment; updates.port = 0 and updates.enabled = "keep"
\* stand for fields the request body does not have.  For an id that is not
\* configured it returns null and changes nothing.
updateEquipment(s, equipmentId, updates) ==
  LET i == IndexOf(s, equipmentId)
      d == s.equipment[i]
  IN IF i = 0 THEN s
     ELSE IF /\ updates.port # 0
             /\ updates.port # d.port
             /\ ~ isPortAvailable(s, updates.port, equipmentId)
       THEN Throw(s, "CfgPortInUse")
     ELSE [s EXCEPT !.equipment[i] =
             [id |-> d.id,
              port |-> IF updates.port # 0 THEN updates.port ELSE d.port,
              enabled |-> IF updates.enabled = "keep" THEN d.enabled
                          ELSE updates.enabled = "on"]]

\* config.removeEquipment: the descriptor leaves the array; what still
\* refers to it keeps the object as it is now.
cfgRemoveEquipment(s, equipmentId) ==
  LET i == IndexOf(s, equipmentId)
      d == s.equipment[i]
      fr(r) == IF r.live /\ r.id = equipmentId THEN Frozen(d) ELSE r
      frs(k) == [k EXCEPT !.eq = fr(@)]
  IN IF i = 0 THEN s
     ELSE [s EXCEPT
             !.equipment = [j \in 1..(Len(@) - 1) |-> IF j < i THEN @[j] ELSE @[j + 1]],
             !.equipmentMap = [j \in 1..Len(@) |-> <<@[j][1], fr(@[j][2])>>],
             !.sockets = [j \in 1..Len(@) |-> <<@[j][1], frs(@[j][2])>>]]

\* ------------------------------------------------- MultiPortUDPListener
isListening(s, port) == MapHas(s.sockets, port)

\* isPortInUse without the exclusion of the asking equipment.
isPortInUse_ignoresOwner(s, port, excludeEquipmentId) ==
  MapHas(s.sockets, port)

isPortInUse(s, port, excludeEquipmentId) ==
  IF ~ MapHas(s.sockets, port) THEN FALSE
  ELSE IF /\ MapHas(s.equipmentMap, port)
          /\ Deref(s, MapGet(s.equipmentMap, port)).id = excludeEquipmentId
       THEN FALSE
       ELSE TRUE

\* socket.close() on the socket registered for the port: a dgram socket that
\* is already closed throws.
close(s, port) ==
  IF MapGet(s.sockets, port).state = "closed" THEN Throw(s, "NotRunning")
  ELSE [s EXCEPT !.sockets =
          MapSet(@, port, [MapGet(s.sockets, port) EXCEPT !.state = "closed"])]

startEquipmentListener(s, id) ==
  LET p == s.equipment[IndexOf(s, id)].port
      server == [port |-> p, eq |-> Live(id), state |-> "open"]
  IN IF MapHas(s.sockets, p)
       THEN [s EXCEPT !.log = @ \cup {<<"conflict", id>>}]
     ELSE [s EXCEPT !.sockets = MapSet(@, p, server),
                    !.equipmentMap = MapSet(@, p, Live(id))]

RECURSIVE startEach(_, _, _)
startEach(s, list, i) ==
  IF i > Len(list) THEN s
  ELSE startEach(startEquipmentListener(s, list[i].id), list, i + 1)

\* start that gives up after the first descriptor.
start_firstOnly(s) ==
  LET list == getEnabledEquipment(s)
  IN IF Len(list) = 0 THEN s ELSE startEquipmentListener(s, list[1].id)

start(s) ==
  LET list == getEnabledEquipment(s)
  IN IF Len(list) = 0 THEN s ELSE startEach(s, list, 1)

\* updatePort, the part "Stop old socket" (equipment is in the configuration).
updatePortClose(s, equipmentId) ==
  LET oldPort == s.equipment[IndexOf(s, equipmentId)].port
  IN IF ~ MapHas(s.sockets, oldPort) THEN s
     ELSE LET c == close(s, oldPort)
          IN IF c.err # "" THEN c
             ELSE [c EXCEPT !.sockets = MapDelete(@, oldPort),
                            !.equipmentMap = MapDelete(@, oldPort)]

\* updatePort that does not ask isPortInUse.
updatePort_noCheck(s, equipmentId, newPort) ==
  IF getEquipmentById(s, equipmentId) = 0 THEN Throw(s, "NotFound")
  ELSE LET c == updatePortClose(s, equipmentId)
       IN IF c.err # "" THEN c
          ELSE startEquipmentListener(
                 updateEquipmentPort(c, equipmentId, newPort), equipmentId)

updatePort(s, equipmentId, newPort) ==
  IF getEquipmentById(s, equipmentId) = 0 THEN Throw(s, "NotFound")
  ELSE IF isPortInUse(s, newPort, equipmentId) THEN Throw(s, "PortInUse")
  ELSE LET c == updatePortClose(s, equipmentId)
       IN IF c.err # "" THEN c
          ELSE startEquipmentListener(
                 updateEquipmentPort(c, equipmentId, newPort), equipmentId)

\* addEquipment that does not test sockets.has.
addEquipment_noCheck(s, id) == startEquipmentListener(s, id)

addEquipment(s, id) ==
  IF MapHas(s.sockets, s.equipment[IndexOf(s, id)].port)
    THEN Throw(s, "PortInUse")
  ELSE startEquipmentListener(s, id)

\* The port of the first equipmentMap entry (insertion order) of the id; 0: none.
portToRemove(s, equipmentId) ==
  LET hit == {i \in 1..Len(s.equipmentMap) :
                 Deref(s, s.equipmentMap[i][2]).id = equipmentId}
  IN IF hit = {} THEN 0 ELSE s.equipmentMap[Min(hit)][1]

\* removeEquipment that throws when the id has no entry.
removeEquipment_throwsIfMissing(s, equipmentId) ==
  LET p == portToRemove(s, equipmentId)
  IN IF p = 0 THEN Throw(s, "NotFound")
     ELSE [close(s, p) EXCEPT !.sockets = MapDelete(@, p),
                              !.equipmentMap = MapDelete(@, p)]

\* removeEquipment that closes the socket but leaves it in sockets.
removeEquipment_keepsSocket(s, equipmentId) ==
  LET p == portToRemove(s, equipmentId)
  IN IF p = 0 THEN s
     ELSE LET c == IF MapHas(s.sockets, p) THEN close(s, p) ELSE s
          IN IF c.err # "" THEN c
             ELSE [c EXCEPT !.equipmentMap = MapDelete(@, p)]

removeEquipment(s, equipmentId) ==
  LET p == portToRemove(s, equipmentId)
  IN IF p = 0 THEN s
     ELSE LET c == IF MapHas(s.sockets, p) THEN close(s, p) ELSE s
          IN IF c.err # "" THEN c
             ELSE [c EXCEPT !.sockets = MapDelete(@, p),
                            !.equipmentMap = MapDelete(@, p)]

RECURSIVE closeEach(_, _)
closeEach(s, i) ==
  IF i > Len(s.sockets) THEN s
  ELSE LET c == close(s, s.sockets[i][1])
       IN IF c.err # "" THEN c ELSE closeEach(c, i + 1)

\* stop without sockets.clear() / equipmentMap.clear().
stop_keepsMaps(s) == closeEach(s, 1)

stop(s) ==
  LET c == closeEach(s, 1)
  IN IF c.err # "" THEN c
     ELSE [c EXCEPT !.sockets = <<>>, !.equipmentMap = <<>>]

\* The 'error' handler startEquipmentListener attaches to a socket.  It
\* reads the port of its descriptor when the event fires.
onError(s, eq) ==
  LET d == Deref(s, eq)
  IN [s EXCEPT !.sockets = MapDelete(@, d.port),
               !.equipmentMap = MapDelete(@, d.port),
               !.log = @ \cup {<<"error", d.id>>}]

\* ------------------------------------------------------- what a call found
\* The ports bound for the id: equipmentMap entries of the id with a socket.
OwnedPorts(s, id) ==
  {q \in Ports : /\ MapHas(s.sockets, q)
                 /\ MapHas(s.equipmentMap, q)
                 /\ Deref(s, MapGet(s.equipmentMap, q)).id = id}

\* The id equipmentMap gives for a bound port; "none" if the port is unbound.
OwnerOf(s, port) ==
  IF MapHas(s.sockets, port) /\ MapHas(s.equipmentMap, port)
    THEN Deref(s, MapGet(s.equipmentMap, port)).id
  ELSE IF MapHas(s.sockets, port) THEN "unknown" ELSE "none"

NoCall == [op |-> "none", err |-> "", oldPort |-> 0, owned |-> {}]

\* The listener call op(id, ...) made in state s, which ended in state t;
\* oldPort is the port of the descriptor and owned the ports bound for the
\* id when the call was made.
CallInfo(s, op, id, t) ==
  [op |-> op, err |-> t.err,
   oldPort |-> IF IndexOf(s, id) = 0 THEN 0 ELSE s.equipment[IndexOf(s, id)].port,
   owned |-> OwnedPorts(s, id)]

\* The data a route hands to websocketServer.broadcast once it has
\* succeeded, reduced to its type, the equipment id and the ports it
\* carries; 0 stands for a port the data does not have.  The batch route
\* broadcasts nothing.
NoEvent == [type |-> "none", id |-> "none", oldPort |-> 0, newPort |-> 0]

\* server.js: {type: 'port_changed', equipment: id, port: port}.
port_changed(id, port) ==
  [type |-> "port_changed", id |-> id, oldPort |-> 0, newPort |-> port]

RouteEvent(status, route, id, port) ==
  IF status # 200 THEN NoEvent
  ELSE CASE route = "POST port" -> port_changed(id, port)
         [] route = "PUT port" ->
              [type |-> "equipment_updated", id |-> id, oldPort |-> 0, newPort |-> port]
         [] route = "PUT" ->
              [type |-> "equipment_updated", id |-> id, oldPort |-> 0, newPort |-> port]
         [] route = "POST add" ->
              [type |-> "equipment_added", id |-> id, oldPort |-> 0, newPort |-> port]
         [] route = "DELETE" ->
              [type |-> "equipment_removed", id |-> id, oldPort |-> 0, newPort |-> 0]
         [] OTHER -> NoEvent

Result(s, status, route, id, port, call) ==
  [s |-> s, resp |-> status,
   last |-> [route |-> route,
             event |-> RouteEvent(status, route, id, port),
             id |-> IF status \in {404, 409} THEN "none" ELSE id,
             port |-> IF status \in {404, 409} THEN 0 ELSE port,
             op |-> call.op, err |-> call.err, oldPort |-> call.oldPort,
             owned |-> call.owned,
             again |-> call.op # "none" /\ last.op = call.op /\ last.id = id
                       /\ last.port = port]]

\* ----------------------------------------------------------- HTTP routes
\* POST /api/equipment/add (equipmentRoutes.js)
PostAddRoute(s, id, port, enabled) ==
  IF getEquipmentById(s, id) # 0 THEN Result(s, 409, "POST add", id, port, NoCall)
  ELSE IF ~ isPortAvailable(s, port, "none")
    THEN Result(s, 409, "POST add", id, port, NoCall)
  ELSE LET c == cfgAddEquipment(s, [id |-> id, port |-> port, enabled |-> enabled])
       IN IF c.err # "" THEN Result(s, 500, "POST add", id, port, NoCall)
          ELSE IF ~ enabled THEN Result(c, 200, "POST add", id, port, NoCall)
          ELSE LET t == addEquipment(c, id)
               IN Result(t, IF t.err # "" THEN 500 ELSE 200, "POST add", id, port,
                         CallInfo(c, "addEquipment", id, t))

\* PUT /api/equipment/:id (equipmentRoutes.js)
PutEquipmentRoute(s, id, updates) ==
  IF getEquipmentById(s, id) = 0
    THEN Result(s, 404, "PUT", id, updates.port, NoCall)
  ELSE IF updates.port # 0 /\ ~ isPortAvailable(s, updates.port, id)
    THEN Result(s, 409, "PUT", id, updates.port, NoCall)
  ELSE LET oldPort == s.equipment[IndexOf(s, id)].port
           portChanged == updates.port # 0 /\ updates.port # oldPort
           c == updateEquipment(s, id, updates)
       IN IF c.err # "" THEN Result(s, 500, "PUT", id, updates.port, NoCall)
          ELSE IF portChanged /\ c.equipment[IndexOf(c, id)].enabled
            THEN LET t == updatePort(c, id, updates.port)
                 IN Result(t, IF t.err # "" THEN 500 ELSE 200, "PUT", id, updates.port,
                           CallInfo(c, "updatePort", id, t))
          ELSE Result(c, 200, "PUT", id, updates.port, NoCall)

\* PUT /api/equipment/:id/port (equipmentRoutes.js)
PutPortRoute(s, id, port) ==
  IF ~ isPortAvailable(s, port, id)
    THEN Result(s, 409, "PUT port", id, port, NoCall)
  ELSE LET c == updateEquipment(s, id, [port |-> port, enabled |-> "keep"])
       IN IF c.err # "" THEN Result(s, 500, "PUT port", id, port, NoCall)
          ELSE IF getEquipmentById(c, id) = 0
            THEN Result(c, 404, "PUT port", id, port, NoCall)
          ELSE IF c.equipment[IndexOf(c, id)].enabled
            THEN LET t == updatePort(c, id, port)
                 IN Result(t, IF t.err # "" THEN 500 ELSE 200, "PUT port", id, port,
                           CallInfo(c, "updatePort", id, t))
          ELSE Result(c, 200, "PUT port", id, port, NoCall)

\* POST /api/equipment/:id/port (server.js)
PostPortRoute(s, id, port) ==
  IF isPortInUse(s, port, id)
    THEN Result(s, 409, "POST port", id, port, NoCall)
  ELSE LET t == updatePort(s, id, port)
       IN IF t.err # ""
            THEN Result(t, 500, "POST port", id, port,
                        CallInfo(s, "updatePort", id, t))
          ELSE Result(updateEquipmentPort(t, id, port), 200, "POST port", id, port,
                      CallInfo(s, "updatePort", id, t))

\* POST /api/equipment/ports/batch (server.js): one entry of the array.
\* The exception of a failed entry is caught and the next entry goes on.
batchEntry(s, update) ==
  LET t == updatePort(s, update.id, update.port)
  IN IF t.err # "" THEN [t EXCEPT !.err = ""]
     ELSE updateEquipmentPort(t, update.id, update.port)

RECURSIVE batchFrom(_, _, _)
batchFrom(s, updates, i) ==
  IF i > Len(updates) THEN s
  ELSE batchFrom(batchEntry(s, updates[i]), updates, i + 1)

PostBatchRoute(s, updates) ==
  LET n == Len(updates)
      b == batchFrom(s, updates, 1)
      pre == batchFrom(s, SubSeq(updates, 1, n - 1), 1)
      t == updatePort(pre, updates[n].id, updates[n].port)
  IN Result(b, 200, "POST batch", updates[n].id, updates[n].port,
            IF n = 1 THEN CallInfo(pre, "updatePort", updates[n].id, t)
            ELSE [NoCall EXCEPT !.op = "several"])

\* DELETE /api/equipment/:id (equipmentRoutes.js)
DeleteRoute(s, id) ==
  IF getEquipmentById(s, id) = 0 THEN Result(s, 404, "DELETE", id, 0, NoCall)
  ELSE IF s.equipment[IndexOf(s, id)].enabled
    THEN LET t == removeEquipment(s, id)
         IN IF t.err # ""
              THEN Result(t, 500, "DELETE", id, 0,
                          CallInfo(s, "removeEquipment", id, t))
            ELSE Result(cfgRemoveEquipment(t, id), 200, "DELETE", id, 0,
                        CallInfo(s, "removeEquipment", id, t))
  ELSE Result(cfgRemoveEquipment(s, id), 200, "DELETE", id, 0, NoCall)

\* ------------------------------------------------------------------ Init
\* The configuration file as loaded (loadEquipmentConfig takes the array
\* as it is; ids are distinct, ports need not be).
Configs ==
  {<<>>}
  \cup {<<[id |-> "a", port |-> p, enabled |-> en]>> : p \in Ports, en \in BOOLEAN}
  \cup {<<[id |-> "a", port |-> p, enabled |-> en],
          [id |-> "b", port |-> q, enabled |-> fn]>> :
          p \in Ports, q \in Ports, en \in BOOLEAN, fn \in BOOLEAN}

Init ==
  /\ equipment \in Configs
  /\ sockets = <<>>
  /\ equipmentMap = <<>>
  /\ log = {}
  /\ phase = "init"
  /\ last = Result(St, 0, "none", "none", 0, NoCall).last
  /\ resp = 0
  /\ DecoderIdle
  /\ TrackerIdle
  /\ WsIdle
  /\ ConfigDefault

\* --------------------------------------------------------------- actions
Commit(s) ==
  /\ equipment' = s.equipment
  /\ sockets' = s.sockets
  /\ equipmentMap' = s.equipmentMap

\* An HTTP request handled to its response.
Serve(r) ==
  /\ phase # "init"
  /\ Commit(r.s)
  /\ log' = r.s.log
  /\ last' = r.last
  /\ resp' = r.resp
  /\ phase' = "running"
  /\ UNCHANGED besideListener

\* server.js: udpListener.start(callback), once, when the module loads.
Start ==
  /\ phase = "init"
  /\ LET t == start(St)
     IN /\ Commit(t)
        /\ log' = t.log
        /\ last' = Result(t, 0, "start", "none", 0,
                          CallInfo(St, "start", "none", t)).last
  /\ phase' = "starting"
  /\ resp' = 0
  /\ UNCHANGED besideListener

PostAdd(id, port, enabled) == Serve(PostAddRoute(St, id, port, enabled))

PutEquipment(id, updates) == Serve(PutEquipmentRoute(St, id, updates))

PutPort(id, port) == Serve(PutPortRoute(St, id, port))

PostPort(id, port) == Serve(PostPortRoute(St, id, port))

PostBatch(updates) == Serve(PostBatchRoute(St, updates))

Delete(id) == Serve(DeleteRoute(St, id))

\* SIGTERM / SIGINT: shutdown() calls udpListener.stop(); a second signal
\* calls it again.
Shutdown ==
  /\ phase # "init"
  /\ LET t == stop(St)
     IN /\ Commit(t)
        /\ log' = t.log
        /\ last' = Result(t, 0, "shutdown", "none", 0,
                          CallInfo(St, "stop", "none", t)).last
  /\ resp' = 0
  /\ phase' = "running"
  /\ UNCHANGED besideListener

\* ---------------------------------------------------------- socket events
\* A socket in the map raises 'error': the OS refused the bind (EADDRINUSE,
\* EACCES) or the bound socket failed.  The handler does not close the socket.
\* The step records the port the socket was bound on as last.oldPort.
SocketError(port) ==
  /\ MapHas(sockets, port)
  /\ LET t == onError(St, MapGet(sockets, port).eq)
         d == Deref(St, MapGet(sockets, port).eq)
     IN /\ Commit(t)
        /\ log' = t.log
        /\ last' = Result(t, 0, "error event", d.id, d.port,
                          [NoCall EXCEPT !.oldPort = port]).last
  /\ resp' = 0
  /\ UNCHANGED <<phase, besideListener>>

Updates == [port : Ports \cup {0}, enabled : {"keep", "on", "off"}]

Batches ==
  UNION {[1..n -> [id : Ids, port : Ports]] : n \in 1..MaxBatch}

Next ==
  \/ Start
  \/ \E id \in Ids, port \in Ports, enabled \in BOOLEAN : PostAdd(id, port, enabled)
  \/ \E id \in Ids, updates \in Updates : PutEquipment(id, updates)
  \/ \E id \in Ids, port \in Ports : PutPort(id, port)
  \/ \E id \in Ids, port \in Ports : PostPort(id, port)
  \/ \E updates \in Batches : PostBatch(updates)
  \/ \E id \in Ids : Delete(id)
  \/ Shutdown
  \/ \E port \in Ports : SocketError(port)

Spec == Init /\ [][Next]_vars

\* ================================================================ claims
\* The program state after the step.
StNext ==
  [equipment |-> equipment', sockets |-> sockets', equipmentMap |-> equipmentMap',
   log |-> {}, err |-> ""]

\* C1: in every reachable state there is at most one binding per port: the
\* listening ports are distinct keys, each has one registered socket, bound
\* to that port, and one owner, the equipment whose handlers that socket
\* carries; no port has a socket of one equipment and an owner entry of
\* another.
C1_OneBindingPerPort ==
  /\ Len(sockets) = Len(equipmentMap)
  /\ \A i \in 1..Len(sockets) :
        /\ sockets[i][1] = equipmentMap[i][1]
        /\ sockets[i][2].port = sockets[i][1]
        /\ sockets[i][2].eq = equipmentMap[i][2]
        /\ \A j \in 1..Len(sockets) : sockets[j][1] = sockets[i][1] => j = i
  /\ \A port \in Ports : isListening(St, port) => OwnerOf(St, port) \in Ids

\* A second binding was asked for a listening port by another equipment and
\* was refused; the port still listens for its owner.
C1_Witness ==
  /\ last.err = "PortInUse"
  /\ last.port \in Ports
  /\ isListening(St, last.port)
  /\ OwnerOf(St, last.port) \in Ids \ {last.id}

\* C2: updatePort(id, newPort), called while id listens on oldPort # newPort
\* and newPort is unbound, succeeds and leaves oldPort not listening and
\* newPort listening with owner id.
C2_UpdatePortMovesBinding ==
  [][\A oldPort, newPort \in Ports :
       (/\ last'.op = "updatePort"
        /\ last'.port = newPort
        /\ oldPort # newPort
        /\ OwnedPorts(St, last'.id) = {oldPort}
        /\ ~ isListening(St, newPort))
       => (/\ last'.err = ""
           /\ ~ isListening(StNext, oldPort)
           /\ OwnerOf(StNext, newPort) = last'.id)]_vars

\* C3: each equipment id owns at most one socket binding in every state.
C3_OneBindingPerEquipment ==
  \A id \in Ids : Cardinality(OwnedPorts(St, id)) <= 1

\* The bindings as the set of <<port, owner id>>.
Bindings(s) == {<<port, OwnerOf(s, port)>> : port \in {q \in Ports : isListening(s, q)}}

\* The port of the id's descriptor; 0 if the id is not configured.
PortOf(s, id) == IF IndexOf(s, id) = 0 THEN 0 ELSE s.equipment[IndexOf(s, id)].port

\* C4: addEquipment(descriptor) with a port that already has a binding fails
\* with PortInUse, the socket map and the owner map are exactly as before
\* the call, and the original owner keeps the port.
C4_AddOnBoundPortFails ==
  [][(last'.op = "addEquipment" /\ isListening(St, last'.port))
       => (/\ last'.err = "PortInUse"
           /\ sockets' = sockets
           /\ equipmentMap' = equipmentMap
           /\ OwnerOf(StNext, last'.port) = OwnerOf(St, last'.port))]_vars

\* addEquipment was called for a port that listens for an equipment, and failed.
C4_Witness ==
  /\ last.op = "addEquipment"
  /\ last.err = "PortInUse"
  /\ OwnerOf(St, last.port) \in Ids

\* C5: updatePort(id, newPort) of a configured id, where newPort is bound by
\* a different equipment, fails with PortInUse; the bindings (of the id, of
\* the other equipment, of anyone) are as before and the port of the id's
\* descriptor is the one it had when the call was made.
C5_UpdatePortToForeignPortFails ==
  [][(/\ last'.op = "updatePort"
      /\ IndexOf(St, last'.id) # 0
      /\ OwnerOf(St, last'.port) \notin {"none", last'.id})
       => (/\ last'.err = "PortInUse"
           /\ sockets' = sockets
           /\ equipmentMap' = equipmentMap
           /\ PortOf(StNext, last'.id) = last'.oldPort)]_vars

\* updatePort of an equipment that listens was refused because the new port
\* listens for another equipment.
C5_Witness ==
  /\ last.op = "updatePort"
  /\ last.err = "PortInUse"
  /\ last.owned # {}
  /\ OwnerOf(St, last.port) \in Ids \ {last.id}

\* C6: updatePort(id, p) where p is the id's own current port (the port of
\* its descriptor, on which it is bound) does not fail, and afterwards the
\* bound ports, their owners and the descriptor's port are as before.
C6_UpdatePortToOwnPortIsNoOp ==
  [][(/\ last'.op = "updatePort"
      /\ last'.oldPort = last'.port
      /\ OwnerOf(St, last'.port) = last'.id)
       => (/\ last'.err = ""
           /\ Bindings(StNext) = Bindings(St)
           /\ PortOf(StNext, last'.id) = last'.port)]_vars

\* updatePort was called with the port the equipment was configured and
\* bound on, and returned.
C6_Witness ==
  /\ last.op = "updatePort"
  /\ last.oldPort = last.port
  /\ last.port \in last.owned
  /\ last.err = ""

\* C7: removeEquipment(id) for an id that owns no binding does not throw
\* and leaves every binding as it is.
C7_RemoveWithoutBindingIsNoOp ==
  [][(last'.op = "removeEquipment" /\ OwnedPorts(St, last'.id) = {})
       => (/\ last'.err = ""
           /\ sockets' = sockets
           /\ equipmentMap' = equipmentMap)]_vars

\* removeEquipment ran for an id that owned no binding while another
\* equipment was listening.
C7_Witness ==
  /\ last.op = "removeEquipment"
  /\ last.owned = {}
  /\ \E port \in Ports : isListening(St, port)

\* C8: a DELETE of a configured id that owns at most one binding leaves no
\* binding owned by that id (a binding of the id is a socket whose message
\* handler reports datagrams as status of that id).
C8_DeleteLeavesNoBinding ==
  [][\A id \in Ids :
       (/\ Delete(id)
        /\ IndexOf(St, id) # 0
        /\ Cardinality(OwnedPorts(St, id)) <= 1)
       => OwnedPorts(StNext, id) = {}]_vars

\* C9: stop() does not fail and leaves no port listening; a stop() that
\* follows a stop() leaves the listener and the configuration unchanged.
C9_StopClosesAllIdempotent ==
  [][last'.op = "stop"
       => (/\ last'.err = ""
           /\ \A port \in Ports : ~ isListening(StNext, port)
           /\ sockets' = <<>> /\ equipmentMap' = <<>>
           /\ last'.again
                => (/\ sockets' = sockets
                    /\ equipmentMap' = equipmentMap
                    /\ equipment' = equipment))]_vars

\* stop() ran a second time, right after a stop().
C9_Witness ==
  /\ last.op = "stop"
  /\ last.again
  /\ last.err = ""
  /\ \A port \in Ports : ~ isListening(St, port)

\* The enabled descriptors of the configuration.
Enabled(s) == {s.equipment[i] : i \in {j \in 1..Len(s.equipment) : s.equipment[j].enabled}}

\* C10: start() leaves the port of every enabled descriptor listening, for
\* that descriptor or, when an earlier descriptor has the same port, with
\* the conflict reported for that descriptor; a bind failure that follows
\* is reported for the one equipment of the failed socket and leaves the
\* bindings of the other ports as they are.
C10_StartBindsEachReportsEach ==
  [][phase' = "starting"
       => /\ last'.op = "start"
             => \A d \in Enabled(St) :
                  /\ isListening(StNext, d.port)
                  /\ \/ OwnerOf(StNext, d.port) = d.id
                     \/ <<"conflict", d.id>> \in log'
          /\ last'.route = "error event"
             => /\ log' = {<<"error", last'.id>>}
                /\ OwnerOf(St, last'.port) = last'.id
                /\ \A port \in Ports \ {last'.port} :
                     /\ isListening(StNext, port) = isListening(St, port)
                     /\ OwnerOf(StNext, port) = OwnerOf(St, port)]_vars

\* After start() one equipment's bind failed and was reported, and the
\* other equipment listens.
C10_Witness ==
  /\ phase = "starting"
  /\ last.route = "error event"
  /\ <<"error", last.id>> \in log
  /\ \E port \in Ports : OwnerOf(St, port) \in Ids \ {last.id}

\* ============================================================ ICD decoder
MaxLen == 3       \* bytes of a payload of more than one byte

\* Bytes of the longer payloads: no monitor byte (0x00, 0x47, 0xC0, 0xFF)
\* and monitor bytes (0xA0, 0xB0, 0x9F).
SampleBytes == {0, 71, 192, 255, 160, 176, 159}

\* JavaScript & | >> on bytes.
RECURSIVE BitAnd(_, _)
BitAnd(x, y) ==
  IF x = 0 \/ y = 0 THEN 0
  ELSE 2 * BitAnd(x \div 2, y \div 2) + (IF x % 2 = 1 /\ y % 2 = 1 THEN 1 ELSE 0)

RECURSIVE BitOr(_, _)
BitOr(x, y) ==
  IF x = 0 THEN y
  ELSE IF y = 0 THEN x
  ELSE 2 * BitOr(x \div 2, y \div 2) + (IF x % 2 = 1 \/ y % 2 = 1 THEN 1 ELSE 0)

RECURSIVE ShiftRight(_, _)
ShiftRight(x, n) == IF n = 0 THEN x ELSE ShiftRight(x \div 2, n - 1)

RECURSIVE ShiftLeft(_, _)
ShiftLeft(x, n) == IF n = 0 THEN x ELSE ShiftLeft(2 * x, n - 1)

\* byte.toString(2).padStart(8, '0'), as the sequence of its eight digits.
binaryRepresentation(byte) ==
  [i \in 1..8 |-> ShiftRight(byte, 8 - i) % 2]

\* decodeByte returns null for a byte that is no monitor byte.
Null == [null |-> TRUE]

\* isValidMonitorByte that looks at B7 only.
isValidMonitorByte_ignoresB6(byte) == BitAnd(byte, 128) = 128

isValidMonitorByte(byte) ==
  BitAnd(byte, 128) = 128 /\ BitAnd(byte, 64) = 0

decodeActiveStandby(byte) ==
  IF BitAnd(byte, 32) # 0 THEN "ACTIVE" ELSE "STANDBY"

\* decodeStatus that does not shift the byte.
decodeStatus_noShift(byte) ==
  LET statusBits == BitAnd(byte, 3)
  IN CASE statusBits = 0 -> "NORMAL"
       [] statusBits = 1 -> "WARNING"
       [] statusBits = 2 -> "ALARM"
       [] statusBits = 3 -> "FAULT"
       [] OTHER -> "UNKNOWN"

decodeStatus(byte) ==
  LET statusBits == BitAnd(ShiftRight(byte, 3), 3)
  IN CASE statusBits = 0 -> "NORMAL"
       [] statusBits = 1 -> "WARNING"
       [] statusBits = 2 -> "ALARM"
       [] statusBits = 3 -> "FAULT"
       [] OTHER -> "UNKNOWN"

decodeByte(byte) ==
  IF ~ isValidMonitorByte(byte) THEN Null
  ELSE [valid |-> TRUE,
        path |-> decodeActiveStandby(byte),
        status |-> decodeStatus(byte),
        rawByte |-> byte,
        binaryRepresentation |-> binaryRepresentation(byte)]

\* The entry decodePayload pushes for the byte at offset i.
PayloadEntry(byte, i) ==
  LET d == decodeByte(byte)
  IN [valid |-> d.valid, path |-> d.path, status |-> d.status,
      rawByte |-> d.rawByte, binaryRepresentation |-> d.binaryRepresentation,
      position |-> i]

RECURSIVE decodeFrom(_, _, _)
decodeFrom(buf, i, results) ==
  IF i >= Len(buf) THEN results
  ELSE decodeFrom(buf, i + 1,
         IF decodeByte(buf[i + 1]) # Null
           THEN Append(results, PayloadEntry(buf[i + 1], i))
           ELSE results)

decodePayload(buf) == decodeFrom(buf, 0, <<>>)

Failure == [valid |-> FALSE, error |-> "No valid monitor bytes found in payload"]

\* decodePacket that returns the last monitor byte found.
decodePacket_lastFound(buf) ==
  LET validBytes == decodePayload(buf)
  IN IF Len(validBytes) = 0 THEN Failure ELSE validBytes[Len(validBytes)]

\* decodePacket that returns null when it finds no monitor byte.
decodePacket_nullOnNone(buf) ==
  LET validBytes == decodePayload(buf)
  IN IF Len(validBytes) = 0 THEN Null ELSE validBytes[1]

decodePacket(buf) ==
  LET validBytes == decodePayload(buf)
  IN IF Len(validBytes) = 0 THEN Failure ELSE validBytes[1]

\* createMonitorByte that puts the status bits at B3, B2.
createMonitorByte_shiftTwo(path, status) ==
  LET byte == IF path = "ACTIVE" THEN BitOr(128, 32) ELSE 128
      statusBits == CASE status = "NORMAL" -> 0
                      [] status = "WARNING" -> 1
                      [] status = "ALARM" -> 2
                      [] status = "FAULT" -> 3
                      [] OTHER -> 0
  IN BitOr(byte, ShiftLeft(statusBits, 2))

createMonitorByte(path, status) ==
  LET byte == IF path = "ACTIVE" THEN BitOr(128, 32) ELSE 128
      statusBits == CASE status = "NORMAL" -> 0
                      [] status = "WARNING" -> 1
                      [] status = "ALARM" -> 2
                      [] status = "FAULT" -> 3
                      [] OTHER -> 0
  IN BitOr(byte, ShiftLeft(statusBits, 3))

Bytes == 0..255
PathStates == {"ACTIVE", "STANDBY"}
Severities == {"NORMAL", "WARNING", "ALARM", "FAULT"}

\* Payloads: every single byte, and the payloads of up to MaxLen sample bytes.
Payloads ==
  {<<b>> : b \in Bytes} \cup UNION {[1..n -> SampleBytes] : n \in 0..MaxLen}

\* The listener is not started; the decoder is given a payload.
ListenerIdle ==
  /\ equipment = <<>>
  /\ sockets = <<>>
  /\ equipmentMap = <<>>
  /\ log = {}
  /\ phase = "init"
  /\ last = Result(St, 0, "none", "none", 0, NoCall).last
  /\ resp = 0

InitDecoder ==
  /\ ListenerIdle
  /\ TrackerIdle
  /\ WsIdle
  /\ ConfigDefault
  /\ buffer \in Payloads
  /\ decoded = Pending
  /\ made = NotMade

\* A test or the simulator builds a one-byte payload with createMonitorByte.
CreateMonitorByte(path, status) ==
  /\ decoded = Pending
  /\ made = NotMade
  /\ buffer' = <<createMonitorByte(path, status)>>
  /\ made' = [path |-> path, status |-> status]
  /\ UNCHANGED <<decoded, besideDecoder>>

DecodePacket ==
  /\ decoded = Pending
  /\ decoded' = decodePacket(buffer)
  /\ UNCHANGED <<buffer, made, besideDecoder>>

NextDecoder ==
  \/ \E path \in PathStates, status \in Severities : CreateMonitorByte(path, status)
  \/ DecodePacket

SpecDecoder == InitDecoder /\ [][NextDecoder]_vars

\* The offsets of the bytes of the payload with B7 = 1 and B6 = 0.
MonitorOffsets(buf) == {i \in 0..(Len(buf) - 1) : buf[i + 1] \div 64 = 2}

\* C11: a byte b decodes as a valid monitor byte iff (b & 0xC0) = 0x80,
\* that is iff 128 <= b < 192; every other byte decodes as invalid.
C11_ValidIffTopBitsOneZero ==
  (decoded # Pending /\ Len(buffer) = 1)
    => LET b == buffer[1]
       IN /\ (decodeByte(b) # Null) = (b >= 128 /\ b < 192)
          /\ decoded.valid = (b >= 128 /\ b < 192)
          /\ decoded.valid => decoded = PayloadEntry(b, 0)

\* The bytes 0xBF and 0xC0, on either side of the upper edge, were decoded.
C11_Witness ==
  /\ decoded # Pending
  /\ \/ buffer = <<191>> /\ decoded.valid
     \/ buffer = <<192>> /\ ~ decoded.valid

\* C12: for the 8 combinations of pathState and severity, decoding the
\* byte that createMonitorByte builds is valid and gives back that
\* pathState and that severity.
C12_DecodeOfEncode ==
  (decoded # Pending /\ made # NotMade)
    => /\ decoded.valid
       /\ decoded.path = made.path
       /\ decoded.status = made.status

\* The byte built for STANDBY / FAULT was decoded.
C12_Witness ==
  /\ decoded # Pending
  /\ made = [path |-> "STANDBY", status |-> "FAULT"]
  /\ decoded.valid

\* The reference table of the README, completed with the two FAULT bytes.
ReferenceTable ==
  {<<160, "ACTIVE", "NORMAL">>, <<168, "ACTIVE", "WARNING">>,
   <<176, "ACTIVE", "ALARM">>, <<184, "ACTIVE", "FAULT">>,
   <<128, "STANDBY", "NORMAL">>, <<136, "STANDBY", "WARNING">>,
   <<144, "STANDBY", "ALARM">>, <<152, "STANDBY", "FAULT">>}

\* The severity that bits 4-3 of a byte stand for.
SeverityOfBits(b) ==
  LET bits == (b \div 8) % 4
  IN IF bits = 0 THEN "NORMAL" ELSE IF bits = 1 THEN "WARNING"
     ELSE IF bits = 2 THEN "ALARM" ELSE "FAULT"

\* C13: for a valid byte the path is ACTIVE iff B5 is set, the severity is
\* the one of bits 4-3, bits 2-0 change neither, and the eight reference
\* bytes decode as in the table.
C13_PathAndSeverityBits ==
  (decoded # Pending /\ Len(buffer) = 1 /\ decoded.valid)
    => LET b == buffer[1]
           low == decodeByte(b - (b % 8))
       IN /\ (decoded.path = "ACTIVE") = ((b \div 32) % 2 = 1)
          /\ (decoded.path = "STANDBY") = ((b \div 32) % 2 = 0)
          /\ decoded.status = SeverityOfBits(b)
          /\ decoded.path = low.path /\ decoded.status = low.status
          /\ \A r \in ReferenceTable :
               r[1] = b => decoded.path = r[2] /\ decoded.status = r[3]

\* A valid byte with bits 2-0 set (0x9F: STANDBY, FAULT) was decoded.
C13_Witness ==
  /\ decoded # Pending
  /\ buffer = <<159>>
  /\ decoded.valid
  /\ decoded.status = "FAULT"

\* C14: decodePacket returns the entry of the monitor byte with the
\* smallest offset, the first element of decodePayload; for the payload
\* 0x00 0xA0 0xB0 it is the entry at offset 1, ACTIVE / NORMAL.
C14_FirstFound ==
  (decoded # Pending /\ MonitorOffsets(buffer) # {})
    => /\ decoded.valid
       /\ decoded.position = Min(MonitorOffsets(buffer))
       /\ decoded.rawByte = buffer[decoded.position + 1]
       /\ decoded = decodePayload(buffer)[1]
       /\ buffer = <<0, 160, 176>>
            => /\ decoded.position = 1
               /\ decoded.path = "ACTIVE"
               /\ decoded.status = "NORMAL"

\* The payload 0x00 0xA0 0xB0 was decoded.
C14_Witness ==
  /\ buffer = <<0, 160, 176>>
  /\ decoded # Pending
  /\ decoded.position = 1

\* C15: for a payload with no monitor byte, the empty payload included,
\* decodePacket returns the failure value, with valid = false.
C15_FailureOnNoMonitorByte ==
  (decoded # Pending /\ MonitorOffsets(buffer) = {})
    => /\ decoded = Failure
       /\ decoded.valid = FALSE

\* The empty payload was decoded.
C15_Witness ==
  /\ buffer = <<>>
  /\ decoded # Pending
  /\ decoded = Failure

\* ------------------------------------------------- equipment state tracker
maxHistorySize == 100      \* EquipmentManager.maxHistorySize
TimeoutMs == 30000         \* checkConnectionStatus(30000) of server.js
SweepIntervalMs == 10000   \* the period of the sweep timer of server.js

MaxRecords == 2   \* statuses recorded in one behaviour of the tracker
MaxTicks == 4     \* the clock runs to MaxTicks * SweepIntervalMs
MaxRing == 102    \* statuses recorded for one id in one behaviour of the ring

\* The manager as one record, so that its methods compose as functions.
Mgr == [heap |-> heap, equipmentStatus |-> equipmentStatus, eventHistory |-> eventHistory]

\* new Date(ms).toISOString(), and new Date(string).getTime(): the ISO
\* string keeps the milliseconds, so parsing it gives them back.
toISOString(ms) == [iso |-> TRUE, ms |-> ms]
getTime(date) == date.ms

\* v || null
OrNull(v, falsy) == IF v = falsy THEN Null ELSE v

\* The status object that updateStatus builds.
NewStatus(equipmentId, statusData, t) ==
  [equipmentId |-> equipmentId,
   path |-> statusData.path,
   status |-> statusData.status,
   timestamp |-> toISOString(t),
   lastUpdate |-> toISOString(t),
   connected |-> TRUE,
   rawData |-> statusData.rawByte,
   sourceIP |-> OrNull(statusData.sourceIP, ""),
   sourcePort |-> OrNull(statusData.sourcePort, 0),
   listenPort |-> OrNull(statusData.listenPort, 0)]

\* Variant: the oldest entry is never dropped.
addToHistory_noTrim(m, equipmentId, event) ==
  LET m1 == IF MapHas(m.eventHistory, equipmentId) THEN m
            ELSE [m EXCEPT !.eventHistory = MapSet(@, equipmentId, <<>>)]
  IN [m1 EXCEPT !.eventHistory =
        MapSet(@, equipmentId, <<event>> \o MapGet(m1.eventHistory, equipmentId))]

\* Variant: the event is put at the head of every history there is.
addToHistory_everyId(m, equipmentId, event) ==
  LET m1 == IF MapHas(m.eventHistory, equipmentId) THEN m
            ELSE [m EXCEPT !.eventHistory = MapSet(@, equipmentId, <<>>)]
  IN [m1 EXCEPT !.eventHistory =
        [i \in 1..Len(m1.eventHistory) |->
           <<m1.eventHistory[i][1], <<event>> \o m1.eventHistory[i][2]>>]]

\* manager.addToHistory: unshift, then pop when longer than maxHistorySize.
addToHistory(m, equipmentId, event) ==
  LET m1 == IF MapHas(m.eventHistory, equipmentId) THEN m
            ELSE [m EXCEPT !.eventHistory = MapSet(@, equipmentId, <<>>)]
      history == <<event>> \o MapGet(m1.eventHistory, equipmentId)
      trimmed == IF Len(history) > maxHistorySize
                   THEN SubSeq(history, 1, Len(history) - 1)
                   ELSE history
  IN [m1 EXCEPT !.eventHistory = MapSet(@, equipmentId, trimmed)]

\* Variant: a new status marks every current status connected.
updateStatus_reconnectsAll(m, equipmentId, statusData, t) ==
  LET ref == Len(m.heap) + 1
      current == {m.equipmentStatus[i][2] : i \in 1..Len(m.equipmentStatus)}
      marked == [r \in 1..Len(m.heap) |->
                   IF r \in current THEN [m.heap[r] EXCEPT !.connected = TRUE]
                   ELSE m.heap[r]]
      m1 == [m EXCEPT !.heap = Append(marked, NewStatus(equipmentId, statusData, t)),
                      !.equipmentStatus = MapSet(@, equipmentId, ref)]
  IN addToHistory(m1, equipmentId, ref)

\* Variant: the history gets a copy of the new status, not the object.
updateStatus_copiesToHistory(m, equipmentId, statusData, t) ==
  LET status == NewStatus(equipmentId, statusData, t)
      m1 == [m EXCEPT !.heap = Append(Append(@, status), status),
                      !.equipmentStatus = MapSet(@, equipmentId, Len(m.heap) + 2)]
  IN addToHistory(m1, equipmentId, Len(m.heap) + 1)

\* Variant: the new status becomes current but is not put in the history.
updateStatus_statusOnly(m, equipmentId, statusData, t) ==
  [m EXCEPT !.heap = Append(@, NewStatus(equipmentId, statusData, t)),
            !.equipmentStatus = MapSet(@, equipmentId, Len(m.heap) + 1)]

\* manager.updateStatus: one new object, set as the current status and
\* handed to addToHistory; the same reference goes to both.
updateStatus(m, equipmentId, statusData, t) ==
  LET ref == Len(m.heap) + 1
      m1 == [m EXCEPT !.heap = Append(@, NewStatus(equipmentId, statusData, t)),
                      !.equipmentStatus = MapSet(@, equipmentId, ref)]
  IN addToHistory(m1, equipmentId, ref)

\* manager.getStatus: the current status object, or null.
getStatus(m, equipmentId) ==
  IF MapHas(m.equipmentStatus, equipmentId)
    THEN m.heap[MapGet(m.equipmentStatus, equipmentId)]
    ELSE Null

\* manager.getAllStatuses: the current status object of every tracked id.
getAllStatuses(m) ==
  [i \in 1..Len(m.equipmentStatus) |->
     <<m.equipmentStatus[i][1], m.heap[m.equipmentStatus[i][2]]>>]

\* array.slice(0, limit): a negative limit counts from the end.
SliceTo(arr, limit) ==
  LET end == IF limit < 0
               THEN (IF Len(arr) + limit < 0 THEN 0 ELSE Len(arr) + limit)
             ELSE IF limit < Len(arr) THEN limit ELSE Len(arr)
  IN SubSeq(arr, 1, end)

\* The references in the history of an id, most recent first.
HistoryRefs(m, equipmentId) ==
  IF MapHas(m.eventHistory, equipmentId) THEN MapGet(m.eventHistory, equipmentId) ELSE <<>>

\* manager.getHistory: the first limit entries of the history.
getHistory(m, equipmentId, limit) ==
  LET refs == SliceTo(HistoryRefs(m, equipmentId), limit)
  IN [i \in 1..Len(refs) |-> m.heap[refs[i]]]

\* manager.getLastUpdate
getLastUpdate(m, equipmentId) ==
  IF MapHas(m.equipmentStatus, equipmentId)
    THEN m.heap[MapGet(m.equipmentStatus, equipmentId)].timestamp
    ELSE Null

\* The loop of checkConnectionStatus from the i-th entry of equipmentStatus.
RECURSIVE sweepFrom(_, _, _, _)
sweepFrom(m, i, timeoutMs, t) ==
  IF i > Len(m.equipmentStatus) THEN m
  ELSE LET ref == m.equipmentStatus[i][2]
           lastUpdate == getTime(m.heap[ref].lastUpdate)
       IN IF t - lastUpdate > timeoutMs
            THEN sweepFrom([m EXCEPT !.heap[ref].connected = FALSE], i + 1, timeoutMs, t)
            ELSE sweepFrom(m, i + 1, timeoutMs, t)

\* Variant: an id is stale from the timeout on, not only after it.
checkConnectionStatus_atTimeout(m, timeoutMs, t) ==
  [m EXCEPT !.heap =
     [r \in 1..Len(m.heap) |->
        IF (\E i \in 1..Len(m.equipmentStatus) : m.equipmentStatus[i][2] = r)
           /\ t - getTime(m.heap[r].lastUpdate) >= timeoutMs
          THEN [m.heap[r] EXCEPT !.connected = FALSE]
          ELSE m.heap[r]]]

\* Variant: a stale id is taken out of the status map.
checkConnectionStatus_dropsStale(m, timeoutMs, t) ==
  LET fresh(e) == ~ (t - getTime(m.heap[e[2]].lastUpdate) > timeoutMs)
  IN [m EXCEPT !.equipmentStatus = SelectSeq(@, fresh)]

\* Variant: the loop stops after the first entry of the map.
checkConnectionStatus_firstOnly(m, timeoutMs, t) ==
  IF Len(m.equipmentStatus) = 0 THEN m
  ELSE LET ref == m.equipmentStatus[1][2]
       IN IF t - getTime(m.heap[ref].lastUpdate) > timeoutMs
            THEN [m EXCEPT !.heap[ref].connected = FALSE]
            ELSE m

\* manager.checkConnectionStatus at clock t.
checkConnectionStatus(m, timeoutMs, t) == sweepFrom(m, 1, timeoutMs, t)

\* udpListener.handleMessage for a packet msg received on the socket of
\* descriptor eq: decode, drop an invalid packet, record a valid one.
\* The source address is neither localhost nor the descriptor's ip, and
\* unknown addresses are not allowed: handleMessage warns.
sourceMismatch(eq, rinfo) ==
  /\ rinfo.address \notin {"127.0.0.1", "::1", "::ffff:127.0.0.1"}
  /\ eq.ip # rinfo.address
  /\ ~ configServer.allowUnknownIPs

\* The console lines of handleMessage.  logPacket throws on an empty
\* packet (match gives null); the catch of handleMessage logs the error.
consoleLines(eq, msg, rinfo) ==
  IF msg = <<>> THEN {<<"error", eq.id>>}
  ELSE (IF sourceMismatch(eq, rinfo) THEN {<<"ipMismatch", eq.id>>} ELSE {})
       \cup (IF decodePacket(msg).valid THEN {} ELSE {<<"invalid", eq.id>>})

\* Variant: a packet from an unexpected address is dropped.
handleMessage_dropsMismatch(m, eq, msg, rinfo, t) ==
  LET d == decodePacket(msg)
  IN IF msg = <<>> \/ ~ d.valid \/ sourceMismatch(eq, rinfo) THEN m
     ELSE updateStatus(m, eq.id,
            [path |-> d.path, status |-> d.status, rawByte |-> d.rawByte,
             sourceIP |-> rinfo.address, sourcePort |-> rinfo.port,
             listenPort |-> eq.port], t)

\* Variant: a packet without a monitor byte is recorded as UNKNOWN.
handleMessage_recordsInvalid(m, eq, msg, rinfo, t) ==
  LET d == decodePacket(msg)
  IN updateStatus(m, eq.id,
       [path |-> IF d.valid THEN d.path ELSE "UNKNOWN",
        status |-> IF d.valid THEN d.status ELSE "UNKNOWN",
        rawByte |-> IF d.valid THEN d.rawByte ELSE 0,
        sourceIP |-> rinfo.address, sourcePort |-> rinfo.port,
        listenPort |-> eq.port], t)

handleMessage(m, eq, msg, rinfo, t) ==
  LET d == decodePacket(msg)
  IN IF msg = <<>> THEN m
     ELSE IF ~ d.valid THEN m
     ELSE updateStatus(m, eq.id,
            [path |-> d.path, status |-> d.status, rawByte |-> d.rawByte,
             sourceIP |-> rinfo.address, sourcePort |-> rinfo.port,
             listenPort |-> eq.port], t)

\* The descriptors whose sockets receive packets, the sender, the packets.
Descriptors == {[id |-> "a", port |-> 1], [id |-> "b", port |-> 2]}
Rinfo == [address |-> "10.0.0.1", port |-> 5000]
Messages == {<<160>>, <<0, 152>>, <<71>>}
Limits == {1, 50}

Step(op, id, ret) == [op |-> op, id |-> id, ret |-> ret]

\* The manager's fields after a step.
Commits(m) ==
  /\ heap' = m.heap
  /\ equipmentStatus' = m.equipmentStatus
  /\ eventHistory' = m.eventHistory

\* A packet arrives while fewer than bound statuses were recorded.  The
\* status callback broadcasts to the subscribers; there is none here.
Receive(eq, msg, bound) ==
  /\ Len(heap) < bound
  /\ LET m == handleMessage(Mgr, eq, msg, Rinfo, now)
     IN /\ Commits(m)
        /\ tlast' = Step("handleMessage", eq.id,
                         IF Len(m.heap) > Len(heap) THEN <<m.heap[Len(m.heap)]>> ELSE <<>>)
  /\ UNCHANGED <<now, besideTracker>>

HandleMessage(eq, msg) == Receive(eq, msg, MaxRecords)

\* Time passes.
Tick ==
  /\ now < MaxTicks * SweepIntervalMs
  /\ now' = now + SweepIntervalMs
  /\ tlast' = Step("tick", "none", <<>>)
  /\ UNCHANGED <<heap, equipmentStatus, eventHistory, besideTracker>>

\* The sweep timer of server.js fires.
Sweep ==
  /\ Commits(checkConnectionStatus(Mgr, TimeoutMs, now))
  /\ tlast' = Step("checkConnectionStatus", "none", <<>>)
  /\ UNCHANGED <<now, besideTracker>>

\* The queries of the HTTP API.
Answer(op, id, ret) ==
  /\ tlast' = Step(op, id, ret)
  /\ UNCHANGED <<heap, equipmentStatus, eventHistory, now, besideTracker>>

GetStatus(id) == Answer("getStatus", id, <<getStatus(Mgr, id)>>)

GetAllStatuses == Answer("getAllStatuses", "none", getAllStatuses(Mgr))

GetHistory(id, limit) == Answer("getHistory", id, getHistory(Mgr, id, limit))

GetLastUpdate(id) == Answer("getLastUpdate", id, <<getLastUpdate(Mgr, id)>>)

InitTracker ==
  /\ ListenerIdle
  /\ DecoderIdle
  /\ TrackerIdle
  /\ WsIdle
  /\ ConfigDefault

NextTracker ==
  \/ \E eq \in Descriptors, msg \in Messages : HandleMessage(eq, msg)
  \/ Tick
  \/ Sweep
  \/ \E id \in Ids : GetStatus(id)
  \/ GetAllStatuses
  \/ \E id \in Ids, limit \in Limits : GetHistory(id, limit)
  \/ \E id \in Ids : GetLastUpdate(id)

SpecTracker == InitTracker /\ [][NextTracker]_vars

\* The history ring of one id: packets for "a" only, alternately
\* ACTIVE / NORMAL and STANDBY / FAULT, and the query of the full ring.
RingMessage ==
  Receive([id |-> "a", port |-> 1],
          IF Len(heap) % 2 = 0 THEN <<160>> ELSE <<152>>, MaxRing)

RingHistory == GetHistory("a", maxHistorySize)

NextRing == RingMessage \/ RingHistory

SpecRing == InitTracker /\ [][NextRing]_vars

\* The manager after the step.
MgrNext == [heap |-> heap', equipmentStatus |-> equipmentStatus', eventHistory |-> eventHistory']

\* The smaller of two numbers.
Least(x, y) == IF x < y THEN x ELSE y

\* C16: after n statuses were recorded for an id, its history holds the
\* last min(n, 100) of them, most recent first, and never more than 100;
\* after 101 records getHistory(id, 100) has 100 entries and its first is
\* the 101st status recorded.
C16_RingKeepsLastHundred ==
  LET n == Len(heap)
      refs == HistoryRefs(Mgr, "a")
  IN /\ Len(refs) = Least(n, maxHistorySize)
     /\ Len(refs) <= maxHistorySize
     /\ \A i \in 1..Len(refs) : refs[i] = n - i + 1
     /\ tlast.op = "getHistory"
          => /\ Len(tlast.ret) = Least(n, maxHistorySize)
             /\ \A i \in 1..Len(tlast.ret) : tlast.ret[i] = heap[n - i + 1]
             /\ n = maxHistorySize + 1
                  => /\ Len(tlast.ret) = maxHistorySize
                     /\ tlast.ret[1] = heap[maxHistorySize + 1]
                     /\ tlast.ret[1].path = "ACTIVE"
                     /\ tlast.ret[2].path = "STANDBY"

\* 101 statuses were recorded and the full ring was queried.
C16_Witness ==
  /\ Len(heap) = maxHistorySize + 1
  /\ tlast.op = "getHistory"
  /\ Len(tlast.ret) = maxHistorySize

\* C17: a sweep leaves the current status of an id connected = false
\* exactly when now - lastUpdate > timeout, changes no other field of a
\* current status, tracks the same ids, and leaves a status recorded at
\* the time of the sweep connected.
C17_SweepMarksExactlyStale ==
  [][tlast'.op = "checkConnectionStatus"
       => /\ equipmentStatus' = equipmentStatus
          /\ eventHistory' = eventHistory
          /\ Len(heap') = Len(heap)
          /\ \A id \in Ids :
               MapHas(equipmentStatus, id)
                 => LET old == getStatus(Mgr, id)
                        new == getStatus(MgrNext, id)
                        stale == now - getTime(old.lastUpdate) > TimeoutMs
                    IN /\ new.connected = ~ stale
                       /\ [new EXCEPT !.connected = old.connected] = old
                       /\ getTime(old.lastUpdate) = now => new.connected]_vars

\* A sweep has left one id disconnected and the other connected.
C17_Witness ==
  /\ tlast.op = "checkConnectionStatus"
  /\ MapHas(equipmentStatus, "a") /\ MapHas(equipmentStatus, "b")
  /\ ~ getStatus(Mgr, "a").connected
  /\ getStatus(Mgr, "b").connected
  /\ getStatus(Mgr, "a").path = "ACTIVE"

\* C18: the connected flag of an id goes from true to false only in a
\* sweep, and from false to true only when a valid packet for that id is
\* recorded; no status object ever goes back from false to true.
C18_ConnectedTransitions ==
  [][/\ \A r \in 1..Len(heap) : ~ heap[r].connected => ~ heap'[r].connected
     /\ \A id \in Ids :
          MapHas(equipmentStatus, id)
            => LET old == getStatus(Mgr, id)
                   new == getStatus(MgrNext, id)
               IN /\ MapHas(equipmentStatus', id)
                  /\ (old.connected /\ ~ new.connected)
                       => tlast'.op = "checkConnectionStatus"
                  /\ (~ old.connected /\ new.connected)
                       => /\ tlast'.op = "handleMessage"
                          /\ tlast'.id = id
                          /\ tlast'.ret = <<new>>
                          /\ Len(heap') = Len(heap) + 1]_vars

\* An id that a sweep had disconnected is connected again by a packet.
C18_Witness ==
  /\ tlast.op = "handleMessage"
  /\ tlast.id = "a"
  /\ Len(HistoryRefs(Mgr, "a")) = 2
  /\ ~ heap[HistoryRefs(Mgr, "a")[2]].connected
  /\ getStatus(Mgr, "a").connected

\* C19: an entry of a history never changes: no step changes any field of
\* an object that a history holds.
C19_HistoryEntriesNeverChange ==
  [][\A id \in Ids :
       \A i \in 1..Len(HistoryRefs(Mgr, id)) :
         heap'[HistoryRefs(Mgr, id)[i]] = heap[HistoryRefs(Mgr, id)[i]]]_vars

\* ------------------------------------------------------------ live fanout
MaxBroadcasts == 2   \* broadcasts in one behaviour

\* The status events that are broadcast.
Events == {"status"}

\* JSON.stringify of the envelope that broadcast builds around data.
Stringify(type, data, t) ==
  [json |-> TRUE, type |-> type, data |-> data, timestamp |-> toISOString(t)]

\* The fanout as one record: the client set, the sockets, the counters
\* of the running broadcast and whether an exception left it.
Fanout ==
  [clients |-> clients, wsState |-> wsState,
   successCount |-> 0, failCount |-> 0, threw |-> FALSE]

\* Variant: the message goes in front of what was sent before.
Send_prepends(f, w, message) == [f EXCEPT !.wsState[w].inbox = <<message>> \o @]

\* client.send(message) on a socket whose send does not throw.
Send(f, w, message) == [f EXCEPT !.wsState[w].inbox = Append(@, message)]

\* Variant: the loop has no try / catch, the first throw ends the broadcast.
RECURSIVE broadcastFrom_noCatch(_, _, _)
broadcastFrom_noCatch(f, i, message) ==
  IF i > Len(f.clients) THEN f
  ELSE LET client == f.clients[i]
       IN IF f.wsState[client].readyState = "OPEN"
            THEN IF f.wsState[client].sendThrows
                   THEN [f EXCEPT !.threw = TRUE]
                   ELSE broadcastFrom_noCatch(
                          [Send(f, client, message) EXCEPT !.successCount = @ + 1],
                          i + 1, message)
            ELSE broadcastFrom_noCatch(f, i + 1, message)

\* this.clients.forEach of broadcast, from the i-th client on.
RECURSIVE broadcastFrom(_, _, _)
broadcastFrom(f, i, message) ==
  IF i > Len(f.clients) THEN f
  ELSE LET client == f.clients[i]
       IN IF f.wsState[client].readyState = "OPEN"
            THEN IF f.wsState[client].sendThrows
                   THEN broadcastFrom([f EXCEPT !.failCount = @ + 1], i + 1, message)
                   ELSE broadcastFrom(
                          [Send(f, client, message) EXCEPT !.successCount = @ + 1],
                          i + 1, message)
            ELSE broadcastFrom(f, i + 1, message)

\* wsServer.broadcast(data) at clock t.
broadcast(f, data, t) == broadcastFrom(f, 1, Stringify("statusUpdate", data, t))

\* Set.delete
SetDelete(set, w) == LET keep(x) == x # w IN SelectSeq(set, keep)

InSet(set, w) == \E i \in 1..Len(set) : set[i] = w

\* The 'connection' event: the socket joins the set and is greeted.
Connection(w) ==
  /\ wsState[w].readyState = "NONE"
  /\ clients' = Append(clients, w)
  /\ wsState' = [wsState EXCEPT ![w] =
        [readyState |-> "OPEN", sendThrows |-> FALSE,
         inbox |-> <<Stringify("connection", "Connected to Navigation Monitoring System", now)>>,
         isAlive |-> TRUE, inWss |-> TRUE, unanswered |-> 0]]
  /\ UNCHANGED <<bcast, besideWs>>

\* The connection of an open socket degrades: send throws from now on.
SendBreaks(w) ==
  /\ wsState[w].readyState = "OPEN"
  /\ ~ wsState[w].sendThrows
  /\ wsState' = [wsState EXCEPT ![w].sendThrows = TRUE]
  /\ UNCHANGED <<clients, bcast, besideWs>>

\* The peer closes: readyState leaves OPEN before any handler runs.
PeerCloses(w) ==
  /\ wsState[w].readyState = "OPEN"
  /\ wsState' = [wsState EXCEPT ![w].readyState = "CLOSED"]
  /\ UNCHANGED <<clients, bcast, besideWs>>

\* The 'close' handler.
OnClose(w) ==
  /\ wsState[w].readyState = "CLOSED"
  /\ wsState[w].inWss
  /\ clients' = SetDelete(clients, w)
  /\ wsState' = [wsState EXCEPT ![w].inWss = FALSE]
  /\ UNCHANGED <<bcast, besideWs>>

\* The 'error' handler of a socket.
OnWsError(w) ==
  /\ wsState[w].readyState = "OPEN"
  /\ wsState[w].sendThrows
  /\ InSet(clients, w)
  /\ clients' = SetDelete(clients, w)
  /\ UNCHANGED <<wsState, bcast, besideWs>>

\* A status update is broadcast.
Broadcast(data) ==
  /\ bcast.n < MaxBroadcasts
  /\ LET f == broadcast(Fanout, data, now)
     IN /\ wsState' = f.wsState
        /\ clients' = f.clients
        /\ bcast' = [n |-> bcast.n + 1, event |-> data,
                     successCount |-> f.successCount, failCount |-> f.failCount,
                     threw |-> f.threw]
  /\ UNCHANGED besideWs

InitWs ==
  /\ ListenerIdle
  /\ DecoderIdle
  /\ TrackerIdle
  /\ WsIdle
  /\ ConfigDefault

NextWs ==
  \/ \E w \in WsIds : Connection(w)
  \/ \E w \in WsIds : SendBreaks(w)
  \/ \E w \in WsIds : PeerCloses(w)
  \/ \E w \in WsIds : OnClose(w)
  \/ \E w \in WsIds : OnWsError(w)
  \/ \E data \in Events : Broadcast(data)

SpecWs == InitWs /\ [][NextWs]_vars

\* The registered sockets that are open, and those of them that accept a send.
OpenClients == {w \in WsIds : InSet(clients, w) /\ wsState[w].readyState = "OPEN"}
Receivers == {w \in OpenClients : ~ wsState[w].sendThrows}

\* C20: a broadcast delivers the event to every registered open socket
\* whose send does not throw, whatever the other sockets do: a throwing
\* send is counted and the broadcast goes on and does not fail.
C20_BroadcastReachesEveryOpenClient ==
  [][bcast'.n # bcast.n
       => /\ ~ bcast'.threw
          /\ clients' = clients
          /\ \A w \in Receivers :
               wsState'[w].inbox =
                 Append(wsState[w].inbox, Stringify("statusUpdate", bcast'.event, now))
          /\ \A w \in WsIds \ Receivers : wsState'[w] = wsState[w]
          /\ bcast'.successCount = Cardinality(Receivers)
          /\ bcast'.failCount = Cardinality(OpenClients \ Receivers)]_vars

\* Of three open sockets the first one threw and the other two were sent
\* the event.
C20_Witness ==
  /\ bcast.n = 1
  /\ bcast.failCount = 1
  /\ bcast.successCount = 2
  /\ wsState[clients[1]].sendThrows
  /\ Len(wsState[clients[2]].inbox) = 2
  /\ Len(wsState[clients[3]].inbox) = 2

\* --------------------------------------------------------------- heartbeat
\* The heartbeats counted for a socket: none, one, two or more.
Counted(n) == IF n < 2 THEN n + 1 ELSE n

\* Variant: the heartbeat pings every socket and terminates none.
heartbeat_onlyPings(f) ==
  [f EXCEPT !.wsState =
     [w \in WsIds |->
        IF ~ f.wsState[w].inWss THEN f.wsState[w]
        ELSE [f.wsState[w] EXCEPT !.isAlive = FALSE, !.unanswered = Counted(@)]]]

\* Variant: the heartbeat terminates every socket, answered or not.
heartbeat_terminatesAll(f) ==
  LET dead == {w \in WsIds : f.wsState[w].inWss}
      keep(w) == w \notin dead
  IN [f EXCEPT
        !.clients = SelectSeq(@, keep),
        !.wsState =
          [w \in WsIds |->
             IF w \notin dead THEN f.wsState[w]
             ELSE [f.wsState[w] EXCEPT !.readyState = "CLOSED", !.unanswered = Counted(@)]]]

\* The heartbeat timer of initialize: for each socket of wss.clients, one
\* that has not answered the last ping leaves this.clients and is
\* terminated; any other is marked and pinged.
heartbeat(f) ==
  LET dead == {w \in WsIds : f.wsState[w].inWss /\ ~ f.wsState[w].isAlive}
      keep(w) == w \notin dead
  IN [f EXCEPT
        !.clients = SelectSeq(@, keep),
        !.wsState =
          [w \in WsIds |->
             IF ~ f.wsState[w].inWss THEN f.wsState[w]
             ELSE IF w \in dead
               THEN [f.wsState[w] EXCEPT !.readyState = "CLOSED", !.unanswered = Counted(@)]
             ELSE [f.wsState[w] EXCEPT !.isAlive = FALSE, !.unanswered = Counted(@)]]]

\* The heartbeat timer fires.
Heartbeat ==
  /\ \E w \in WsIds : wsState[w].inWss
  /\ LET f == heartbeat(Fanout)
     IN /\ clients' = f.clients
        /\ wsState' = f.wsState
  /\ UNCHANGED <<bcast, besideWs>>

\* The 'pong' handler: an open socket answers the ping.
Pong(w) ==
  /\ wsState[w].readyState = "OPEN"
  /\ ~ wsState[w].isAlive
  /\ wsState' = [wsState EXCEPT ![w].isAlive = TRUE, ![w].unanswered = 0]
  /\ UNCHANGED <<clients, bcast, besideWs>>

NextHeartbeat ==
  \/ \E w \in WsIds : Connection(w)
  \/ \E w \in WsIds : PeerCloses(w)
  \/ \E w \in WsIds : OnClose(w)
  \/ \E w \in WsIds : Pong(w)
  \/ Heartbeat
  \/ \E data \in Events : Broadcast(data)

SpecHeartbeat == InitWs /\ [][NextHeartbeat]_vars

\* C21: a socket that two heartbeats in a row found without a pong is
\* terminated and out of the subscriber set, and from then on it is sent
\* nothing and does not come back.
C21_SilentSubscriberIsRemoved ==
  [][\A w \in WsIds :
       /\ wsState'[w].unanswered >= 2
            => /\ ~ InSet(clients', w)
               /\ wsState'[w].readyState # "OPEN"
       /\ wsState[w].unanswered >= 2
            => /\ wsState'[w].inbox = wsState[w].inbox
               /\ wsState'[w].unanswered >= 2]_vars

\* One socket was terminated after two silent heartbeats; a broadcast then
\* reached the other socket only.
C21_Witness ==
  /\ wsState["w1"].unanswered = 2
  /\ wsState["w1"].readyState = "CLOSED"
  /\ Len(wsState["w1"].inbox) = 1
  /\ clients = <<"w2">>
  /\ wsState["w2"].unanswered = 0
  /\ bcast.n = 1
  /\ Len(wsState["w2"].inbox) = 2

\* ------------------------------------------- from the datagram to the fanout
\* config.server as the configuration file can set it.
ServerConfigs == [connectionTimeout : {10000, 30000}, allowUnknownIPs : BOOLEAN]

\* The descriptors whose sockets receive, with the address each expects,
\* the senders and the packets.
Equipments ==
  {[id |-> "a", port |-> 1, ip |-> "10.0.0.1"],
   [id |-> "b", port |-> 2, ip |-> "10.0.0.2"]}
Senders == {[address |-> ip, port |-> 5000] : ip \in {"10.0.0.1", "10.0.0.9", "127.0.0.1"}}
Datagrams == {<<160>>, <<0, 152>>, <<71>>, <<>>}
Subscribers == {"w1", "w2"}

\* The 'message' event of the socket of descriptor eq: handleMessage, and
\* for a recorded status the callback of server.js, which broadcasts it.
Datagram(eq, msg, rinfo) ==
  /\ Len(heap) < MaxRecords
  /\ \E m \in {handleMessage(Mgr, eq, msg, rinfo, now)} :
       /\ Commits(m)
       /\ IF Len(m.heap) > Len(heap)
            THEN \E f \in {broadcast(Fanout, m.heap[Len(m.heap)], now)} :
                   /\ tlast' = Step("handleMessage", eq.id, <<m.heap[Len(m.heap)]>>)
                   /\ wsState' = f.wsState
                   /\ clients' = f.clients
                   /\ bcast' = [n |-> bcast.n + 1, event |-> m.heap[Len(m.heap)],
                                successCount |-> f.successCount,
                                failCount |-> f.failCount, threw |-> f.threw]
            ELSE /\ tlast' = Step("handleMessage", eq.id, <<>>)
                 /\ UNCHANGED wsVars
  /\ log' = consoleLines(eq, msg, rinfo)
  /\ buffer' = msg
  /\ decoded' = decodePacket(msg)
  /\ UNCHANGED <<now, made, equipment, sockets, equipmentMap, phase, last, resp, configVars>>

InitIngest ==
  /\ ListenerIdle
  /\ DecoderIdle
  /\ TrackerIdle
  /\ WsIdle
  /\ configServer \in ServerConfigs

NextIngest ==
  \/ \E w \in Subscribers : Connection(w)
  \/ \E eq \in Equipments, msg \in Datagrams, rinfo \in Senders : Datagram(eq, msg, rinfo)

SpecIngest == InitIngest /\ [][NextIngest]_vars

\* The sweep under every configuration: packets, the clock, the timer.
NextTimeout ==
  \/ \E eq \in Descriptors, msg \in Messages : HandleMessage(eq, msg)
  \/ Tick
  \/ Sweep

SpecTimeout == InitIngest /\ [][NextTimeout]_vars

\* The statuses built so far as they were when broadcast (connected), in
\* the order of the broadcast calls, and the status events sent to a socket.
Broadcasts == [i \in 1..Len(heap) |-> [heap[i] EXCEPT !.connected = TRUE]]

StatusesSent(w) ==
  LET isStatus(msg) == msg.type = "statusUpdate"
      sent == SelectSeq(wsState[w].inbox, isStatus)
  IN [i \in 1..Len(sent) |-> sent[i].data]

\* C22: what a socket was sent is, in the same order, a run of the
\* broadcasts made, whichever equipment their datagrams came from; each
\* broadcast puts its event behind everything the socket was sent before.
C22_FifoPerSubscriber ==
  [][\A w \in WsIds :
       /\ \E k \in 1..(Len(heap') + 1) :
            [i \in 1..Len(StatusesSent(w)') |-> StatusesSent(w)'[i]]
              = SubSeq(Broadcasts', k, Len(heap'))
       /\ \/ wsState'[w].inbox = wsState[w].inbox
          \/ wsState[w].inbox = <<>> /\ Len(wsState'[w].inbox) = 1
          \/ /\ bcast'.n = bcast.n + 1
             /\ wsState'[w].inbox =
                  Append(wsState[w].inbox, Stringify("statusUpdate", bcast'.event, now))]_vars

\* A socket was sent the status of "a" and then the status of "b".
C22_Witness ==
  /\ Len(heap) = 2
  /\ Len(StatusesSent("w1")) = 2
  /\ StatusesSent("w1")[1].equipmentId = "a"
  /\ StatusesSent("w1")[2].equipmentId = "b"
  /\ Len(StatusesSent("w2")) = 1

\* A step that handled a datagram: the only other steps connect a socket.
DatagramStep == tlast'.op = "handleMessage" /\ clients' = clients

C24_InvalidDatagramDropped ==
  [][/\ (DatagramStep /\ MonitorOffsets(buffer') = {})
          => /\ heap' = heap
             /\ equipmentStatus' = equipmentStatus
             /\ eventHistory' = eventHistory
             /\ wsState' = wsState
             /\ bcast' = bcast
             /\ tlast'.ret = <<>>
     /\ (/\ tlast.op = "handleMessage" /\ MonitorOffsets(buffer) = {}
         /\ DatagramStep /\ MonitorOffsets(buffer') # {})
          => /\ Len(heap') = Len(heap) + 1
             /\ bcast'.n = bcast.n + 1]_vars

\* With a status recorded and a subscriber connected, a datagram without
\* a monitor byte was dropped.
C24_Witness ==
  /\ tlast.op = "handleMessage"
  /\ tlast.ret = <<>>
  /\ buffer = <<71>>
  /\ <<"invalid", tlast.id>> \in log
  /\ Len(heap) = 1
  /\ bcast.n = 1
  /\ Len(clients) = 2

\* C27: a sweep leaves an id disconnected exactly when its last update is
\* older than config.server.connectionTimeout.
C27_SweepUsesConfiguredTimeout ==
  [][tlast'.op = "checkConnectionStatus"
       => \A id \in Ids :
            MapHas(equipmentStatus, id)
              => getStatus(MgrNext, id).connected
                   = ~ (now - getTime(getStatus(Mgr, id).lastUpdate)
                          > configServer.connectionTimeout)]_vars

\* ------------------------------------------------ GET /api/history/:id
\* The limit parameter of the query string: absent, or one of these texts.
QueryLimits == {"", "0", "1", "2", "50", "-1", "abc"}

\* A JavaScript number: NaN, or the integer n.
NaN == [nan |-> TRUE, n |-> 0]
Num(n) == [nan |-> FALSE, n |-> n]

\* parseInt on the texts of QueryLimits; undefined and "abc" give NaN.
parseInt(text) ==
  CASE text = "0" -> Num(0)
    [] text = "1" -> Num(1)
    [] text = "2" -> Num(2)
    [] text = "50" -> Num(50)
    [] text = "-1" -> Num(0 - 1)
    [] OTHER -> NaN

\* parseInt(req.query.limit) || 50: NaN and 0 are falsy.
limitOf(text) ==
  LET parsed == parseInt(text)
  IN IF parsed.nan \/ parsed.n = 0 THEN 50 ELSE parsed.n

\* The history route of server.js: it answers what getHistory returns for
\* the limit of the query.
GetHistoryRoute(id, text) ==
  /\ tlast' = [op |-> "GET /api/history", id |-> id, limit |-> limitOf(text),
               ret |-> getHistory(Mgr, id, limitOf(text))]
  /\ UNCHANGED <<heap, equipmentStatus, eventHistory, now, besideTracker>>

NextHistory ==
  \/ \E eq \in Descriptors, msg \in Messages : HandleMessage(eq, msg)
  \/ \E id \in Ids, text \in QueryLimits : GetHistoryRoute(id, text)

SpecHistory == InitTracker /\ [][NextHistory]_vars

\* C28: what the history route answers is the first entries of the id's
\* history, newest first, no more than the limit (none for a negative
\* limit) and no more than the capacity; for an id without history it is
\* empty.
C28_HistoryAtMostLimit ==
  tlast.op = "GET /api/history"
    => LET refs == HistoryRefs(Mgr, tlast.id)
       IN /\ Len(tlast.ret) <= (IF tlast.limit < 0 THEN 0 ELSE tlast.limit)
          /\ Len(tlast.ret) <= maxHistorySize
          /\ Len(tlast.ret) <= Len(refs)
          /\ \A i \in 1..Len(tlast.ret) : tlast.ret[i] = heap[refs[i]]
          /\ refs = <<>> => tlast.ret = <<>>

\* ---------------------------------------------------------------------
\* Socket failures (udpListener.js 299-304).

\* C25: when a bound socket raises a runtime error, exactly that binding is
\* torn down: the port it was bound on is no longer listening after the
\* handler, and every other port that was listening is still listening with
\* the same owner.
C25_ErrorRemovesExactlyThatBinding ==
  [][last'.route = "error event" =>
       /\ ~isListening(StNext, last'.oldPort)
       /\ \A q \in Ports \ {last'.oldPort} :
            isListening(St, q) =>
              /\ isListening(StNext, q)
              /\ OwnerOf(StNext, q) = OwnerOf(St, q)]_vars

\* The socket that raises 'error' in this step was bound by the step before:
\* the OS answers server.bind(port, host) on a later turn of the event loop,
\* after addEquipment, updatePort or start has returned.
BindDenied ==
  /\ last'.route = "error event"
  /\ last.op \in {"addEquipment", "updatePort", "start"}
  /\ last.err = ""
  /\ last.op = "start" \/ last.port = last'.oldPort

\* C26: when the OS denies a bind that addEquipment, updatePort or start
\* asked for, the operation that asked for it is rejected (the request is
\* answered with an error status), the port is not listening afterwards and
\* every other binding is still listening.
C26_BindDenialIsSurfaced ==
  [][BindDenied =>
       /\ resp >= 400
       /\ ~isListening(StNext, last'.oldPort)
       /\ \A q \in Ports \ {last'.oldPort} :
            isListening(St, q) => isListening(StNext, q)]_vars

\* ---------------------------------------------------------------------
\* Events of the administrative routes.

\* C29: every request that succeeds in changing the port of an equipment
\* hands to websocketServer.broadcast an event that carries the equipment
\* id, the port the descriptor had before and the port it has now.
C29_PortChangeEventCarriesBothPorts ==
  [][\A id \in Ids :
       ( /\ resp' = 200
         /\ PortOf(St, id) # 0 /\ PortOf(StNext, id) # 0
         /\ PortOf(StNext, id) # PortOf(St, id) )
       => /\ last'.event.id = id
          /\ last'.event.oldPort = PortOf(St, id)
          /\ last'.event.newPort = PortOf(StNext, id)]_vars

\* ---------------------------------------------------------------------
\* Ports of the descriptors.

\* No two descriptors of the configuration have the same port.
UniquePorts(s) ==
  \A i, j \in 1..Len(s.equipment) :
    s.equipment[i].port = s.equipment[j].port => i = j

\* C30: listenPort stays unique across the descriptors: no administrative
\* request (add, update, port change, batch port change, delete) takes a
\* configuration with distinct ports to one where two descriptors have the
\* same port.
C30_ListenPortStaysUnique ==
  [][UniquePorts(St) => UniquePorts(StNext)]_vars

\* ---------------------------------------------------------------------
\* Equipment boundaries of the tracker.

\* C31: a datagram handled on the socket of one equipment, valid or not,
\* leaves the current status and the history of every other equipment id
\* as they were.
C31_DatagramTouchesOnlyItsEquipment ==
  [][tlast'.op = "handleMessage" =>
       \A id \in Ids \ {tlast'.id} :
         /\ getStatus(MgrNext, id) = getStatus(Mgr, id)
         /\ getHistory(MgrNext, id, maxHistorySize) = getHistory(Mgr, id, maxHistorySize)]_vars

\* A valid datagram for "a" was recorded while "b" has a status that the
\* sweep marked disconnected.
C31_Witness ==
  /\ tlast.op = "handleMessage" /\ tlast.id = "a" /\ tlast.ret # <<>>
  /\ MapHas(equipmentStatus, "b")
  /\ ~ getStatus(Mgr, "b").connected

\* ---------------------------------------------------------------------
\* The pipeline of one datagram: decode, record, publish.

\* C32: a datagram with a monitor byte makes exactly one broadcast, and
\* what is broadcast is the status just recorded from the decoded byte:
\* the current status of the equipment and the head of its history when
\* the broadcast is made.  A datagram without a monitor byte makes none.
C32_DecodeRecordThenPublish ==
  [][DatagramStep =>
       IF MonitorOffsets(buffer') # {}
         THEN /\ decoded'.valid
              /\ Len(heap') = Len(heap) + 1
              /\ bcast'.n = bcast.n + 1
              /\ bcast'.event = heap'[Len(heap')]
              /\ bcast'.event = getStatus(MgrNext, tlast'.id)
              /\ getHistory(MgrNext, tlast'.id, 1) = <<bcast'.event>>
              /\ bcast'.event.path = decoded'.path
              /\ bcast'.event.status = decoded'.status
              /\ \A w \in WsIds :
                   (InSet(clients, w) /\ wsState[w].readyState = "OPEN"
                      /\ ~ wsState[w].sendThrows)
                   => wsState'[w].inbox =
                        Append(wsState[w].inbox,
                               Stringify("statusUpdate", bcast'.event, now))
         ELSE bcast'.n = bcast.n]_vars

\* The second valid datagram was published to two subscribers.
C32_Witness ==
  /\ tlast.op = "handleMessage" /\ tlast.ret # <<>>
  /\ bcast.n = 2
  /\ bcast.successCount = 2
  /\ bcast.event.equipmentId = tlast.id
  /\ decoded.valid

\* ---------------------------------------------------------------------
\* Source identification (udpListener.js 325-330).

\* Descriptors as the validator admits them: an address, or 'auto'.
SourceEquipments ==
  {[id |-> "a", port |-> 1, ip |-> "10.0.0.1"],
   [id |-> "b", port |-> 2, ip |-> "auto"]}

Loopback == {"127.0.0.1", "::1", "::ffff:127.0.0.1"}

NextSource ==
  \E eq \in SourceEquipments, msg \in Datagrams, rinfo \in Senders :
     Datagram(eq, msg, rinfo)

SpecSource == InitIngest /\ [][NextSource]_vars

\* C33: a recorded datagram whose source address is the address the
\* descriptor expects, or whose descriptor expects 'auto', or whose source
\* is a loopback address, is handled without the mismatch warning.
C33_NoWarningForAcceptedSource ==
  [][\A eq \in SourceEquipments :
       ( /\ Len(heap') = Len(heap) + 1
         /\ tlast'.id = eq.id
         /\ \/ heap'[Len(heap')].sourceIP = eq.ip
            \/ eq.ip = "auto"
            \/ heap'[Len(heap')].sourceIP \in Loopback )
       => <<"ipMismatch", eq.id>> \notin log']_vars

\* ---------------------------------------------------------------------
\* The sweep timer under fair scheduling.

\* The clock of the model stops at MaxTicks * SweepIntervalMs: a packet is
\* taken only while its timeout ends before the clock stops.
Arrival(eq, msg) ==
  /\ now + TimeoutMs < MaxTicks * SweepIntervalMs
  /\ HandleMessage(eq, msg)

NextSweep ==
  \/ \E eq \in Descriptors, msg \in Messages : Arrival(eq, msg)
  \/ Tick
  \/ Sweep

\* Time passes, and the interval timer of server.js fires again and again.
SpecSweep ==
  InitTracker /\ [][NextSweep]_vars /\ WF_vars(Tick) /\ WF_vars(Sweep)

\* C34: the current status of an id is eventually marked disconnected
\* unless a later packet replaces it, and a disconnected status stays
\* disconnected as long as no packet replaces it.
C34_SilentEquipmentGoesDisconnected ==
  /\ \A id \in Ids : \A r \in 1..MaxRecords :
       (MapHas(equipmentStatus, id) /\ MapGet(equipmentStatus, id) = r)
         ~> (\/ ~ MapHas(equipmentStatus, id)
             \/ MapGet(equipmentStatus, id) # r
             \/ ~ heap[r].connected)
  /\ [][\A id \in Ids :
         ( /\ MapHas(equipmentStatus, id)
           /\ ~ getStatus(Mgr, id).connected
           /\ MapGet(equipmentStatus', id) = MapGet(equipmentStatus, id) )
         => ~ getStatus(MgrNext, id).connected]_vars

\* Both ids were recorded, time passed, and a sweep found both stale.
C34_Witness ==
  /\ tlast.op = "checkConnectionStatus"
  /\ now > TimeoutMs
  /\ \A id \in Ids :
       MapHas(equipmentStatus, id) /\ ~ getStatus(Mgr, id).connected

\* ---------------------------------------------------------------------
\* The sweep and a record for another id, in either order.

\* What updateStatus is given for a valid packet on the socket of eq.
StatusData(eq, msg) ==
  LET d == decodePacket(msg)
  IN [path |-> d.path, status |-> d.status, rawByte |-> d.rawByte,
      sourceIP |-> Rinfo.address, sourcePort |-> Rinfo.port,
      listenPort |-> eq.port]

\* C35: in every state of the tracker, for a packet for id a and any other
\* id b, sweeping and then recording gives the same status and history
\* for a, and the same status for b, as recording and then sweeping.
C35_SweepAndRecordCommute ==
  \A eq \in Descriptors : \A msg \in {<<160>>, <<0, 152>>} :
    LET sweptFirst == updateStatus(checkConnectionStatus(Mgr, TimeoutMs, now),
                                   eq.id, StatusData(eq, msg), now)
        recordedFirst == checkConnectionStatus(
                           updateStatus(Mgr, eq.id, StatusData(eq, msg), now),
                           TimeoutMs, now)
    IN /\ getStatus(sweptFirst, eq.id) = getStatus(recordedFirst, eq.id)
       /\ getHistory(sweptFirst, eq.id, maxHistorySize)
            = getHistory(recordedFirst, eq.id, maxHistorySize)
       /\ \A b \in Ids \ {eq.id} :
            getStatus(sweptFirst, b) = getStatus(recordedFirst, b)

\* ---------------------------------------------------------------------
\* The listener and the tracker side by side.

\* A datagram arrives on the socket bound on port: the handler was
\* registered with the descriptor the socket was started for.  One status
\* is recorded in a behaviour.
SocketMessage(port, msg) ==
  /\ MapHas(sockets, port)
  /\ LET d == Deref(St, MapGet(sockets, port).eq)
     IN Receive([id |-> d.id, port |-> d.port], msg, 1)

\* Both equipment configured and enabled.
InitServer ==
  /\ equipment = <<[id |-> "a", port |-> 1, enabled |-> TRUE],
                   [id |-> "b", port |-> 2, enabled |-> TRUE]>>
  /\ sockets = <<>>
  /\ equipmentMap = <<>>
  /\ log = {}
  /\ phase = "init"
  /\ last = Result(St, 0, "none", "none", 0, NoCall).last
  /\ resp = 0
  /\ DecoderIdle
  /\ TrackerIdle
  /\ WsIdle
  /\ ConfigDefault

NextServer ==
  \/ Start
  \/ \E id \in Ids, port \in Ports : PostPort(id, port)
  \/ Shutdown
  \/ \E port \in Ports : SocketError(port)
  \/ \E port \in Ports, msg \in Messages : SocketMessage(port, msg)
  \/ Tick
  \/ Sweep

SpecServer == InitServer /\ [][NextServer]_vars

C37_OwnerPortIsBoundPort ==
  \A p \in Ports :
    (MapHas(sockets, p) /\ MapHas(equipmentMap, p))
      => /\ Deref(St, MapGet(equipmentMap, p)).port = p
         /\ Deref(St, MapGet(sockets, p).eq).port = p

\* C38: every bound port is owned by an equipment that is in the
\* configuration and enabled.
C38_OnlyEnabledEquipmentIsBound ==
  \A p \in Ports :
    MapHas(sockets, p)
      => \E i \in 1..Len(equipment) :
           /\ equipment[i].id = OwnerOf(St, p)
           /\ equipment[i].enabled

\* ---------------------------------------------------------------------
\* The two maps of the tracker.

\* manager.clear: both maps are emptied.
clear(m) == [m EXCEPT !.equipmentStatus = <<>>, !.eventHistory = <<>>]

Clear ==
  /\ Commits(clear(Mgr))
  /\ tlast' = Step("clear", "none", <<>>)
  /\ UNCHANGED <<now, besideTracker>>

NextManager ==
  \/ \E eq \in Descriptors, msg \in Messages : HandleMessage(eq, msg)
  \/ Tick
  \/ Sweep
  \/ Clear

SpecManager == InitTracker /\ [][NextManager]_vars

\* C39: an id has a current status exactly when its history is not empty,
\* and then the current status is the first entry of the history, the
\* connected flag included.
C39_StatusIsHeadOfHistory ==
  \A id \in Ids :
    /\ MapHas(equipmentStatus, id) <=> HistoryRefs(Mgr, id) # <<>>
    /\ getStatus(Mgr, id) = Null <=> getHistory(Mgr, id, 1) = <<>>
    /\ MapHas(equipmentStatus, id)
         => getHistory(Mgr, id, 1) = <<getStatus(Mgr, id)>>

\* "a" was recorded, the maps were cleared, "a" was recorded again and
\* then found stale by a sweep.
C39_Witness ==
  /\ tlast.op = "checkConnectionStatus"
  /\ Len(heap) = 2
  /\ heap[1].equipmentId = "a" /\ heap[2].equipmentId = "a"
  /\ HistoryRefs(Mgr, "a") = <<2>>
  /\ ~ getStatus(Mgr, "a").connected
  /\ ~ getHistory(Mgr, "a", 1)[1].connected

\* ---------------------------------------------------------------------
\* Responsive subscribers.

\* C40: a registered, open subscriber that has answered every ping is
\* still registered after any step, and if the step closed it, it was the
\* peer and not the heartbeat; as long as at most its last ping is
\* unanswered, every broadcast is appended to what it was sent.
C40_ResponsiveSubscriberStays ==
  [][\A w \in WsIds :
       (InSet(clients, w) /\ wsState[w].readyState = "OPEN")
         => /\ wsState[w].unanswered = 0
                => /\ InSet(clients', w)
                   /\ \/ wsState'[w].readyState = "OPEN"
                      \/ wsState'[w].unanswered = 0
            /\ (wsState[w].unanswered <= 1 /\ bcast'.n = bcast.n + 1
                  /\ ~ wsState[w].sendThrows)
                => wsState'[w].inbox =
                     Append(wsState[w].inbox,
                            Stringify("statusUpdate", bcast'.event, now))]_vars

\* Two subscribers got the first broadcast; the heartbeat terminated the
\* silent one, and the one that answered its ping got the second too.
C40_Witness ==
  /\ bcast.n = 2
  /\ wsState["w2"].readyState = "CLOSED" /\ wsState["w2"].unanswered = 2
  /\ Len(wsState["w2"].inbox) = 2
  /\ InSet(clients, "w1") /\ wsState["w1"].readyState = "OPEN"
  /\ wsState["w1"].unanswered = 0
  /\ Len(wsState["w1"].inbox) = 3

====
